---- MODULE Spec2Model ----
(***************************************************************************)
(* Model of scripts/terraform_converter.py: the Terraform configuration    *)
(* converter (AWS -> Huawei Cloud, Azure -> AWS, Google Cloud -> Azure).   *)
(*                                                                         *)
(* JSON values are tagged records; every Python string is a sequence of    *)
(* one-character strings, so that str.replace, substring tests and         *)
(* f-strings are computed character by character.  A Python dict is a      *)
(* sequence of [k, v] items with distinct keys, in insertion order.        *)
(* A Python exception is the "st" field of a result record: "ok", or the   *)
(* name of the exception class that the call raises.                       *)
(***************************************************************************)
EXTENDS Integers, Sequences, FiniteSets, TLC

VARIABLES
    pc,                  \* position of convert_configuration
    pair,                \* provider-pair wrapper that was called
    config,              \* the loaded document (local `config`)
    loaded,              \* content of the document right after loading
    pending,             \* entries iter_resources has still to yield
    iter_exc,            \* exception iter_resources raises after them
    converted_resources, \* local `converted_resources`
    report,              \* local `report` (ConversionReport)
    output_config,       \* local `output_config`
    written,             \* document handed to dump_terraform_json
    exc,                 \* exception that left convert_configuration
    examined,            \* number of source resources examined so far
    pass,                \* 1: first run, 2: run on the reordered document
    first,               \* outcome of the first run, kept for the second
    cv_pc,               \* position of a single converter call
    cv_type,             \* that call's source resource type
    cv_name,             \* that call's `name`
    cv_body,             \* that call's `body`
    cv_result            \* what the call returned or raised

vars == <<pc, pair, config, loaded, pending, iter_exc, converted_resources,
          report, output_config, written, exc, examined, pass, first,
          cv_pc, cv_type, cv_name, cv_body, cv_result>>

driver_vars == <<pc, pair, config, loaded, pending, iter_exc,
                 converted_resources, report, output_config, written, exc,
                 examined, pass, first>>

cv_vars == <<cv_pc, cv_type, cv_name, cv_body, cv_result>>

(***************************************************************************)
(* String literals of the source.                                          *)
(***************************************************************************)
S_resource == <<"r","e","s","o","u","r","c","e">>
S_provider == <<"p","r","o","v","i","d","e","r">>
S_ami == <<"a","m","i">>
S_instance_type == <<"i","n","s","t","a","n","c","e","_","t","y","p","e">>
S_image_id == <<"i","m","a","g","e","_","i","d">>
S_flavor_name == <<"f","l","a","v","o","r","_","n","a","m","e">>
S_subnet_id == <<"s","u","b","n","e","t","_","i","d">>
S_associate_public_ip_address == <<"a","s","s","o","c","i","a","t","e","_","p","u","b","l","i","c","_","i","p","_","a","d","d","r","e","s","s">>
S_assign_public_ip == <<"a","s","s","i","g","n","_","p","u","b","l","i","c","_","i","p">>
S_key_name == <<"k","e","y","_","n","a","m","e">>
S_key_pair == <<"k","e","y","_","p","a","i","r">>
S_tags == <<"t","a","g","s">>
S_vpc_security_group_ids == <<"v","p","c","_","s","e","c","u","r","i","t","y","_","g","r","o","u","p","_","i","d","s">>
S_security_groups == <<"s","e","c","u","r","i","t","y","_","g","r","o","u","p","s">>
S_huaweicloud_compute_instance == <<"h","u","a","w","e","i","c","l","o","u","d","_","c","o","m","p","u","t","e","_","i","n","s","t","a","n","c","e">>
S_cidr_block == <<"c","i","d","r","_","b","l","o","c","k">>
S_cidr == <<"c","i","d","r">>
S_enable_dns_hostnames == <<"e","n","a","b","l","e","_","d","n","s","_","h","o","s","t","n","a","m","e","s">>
S_huaweicloud_vpc == <<"h","u","a","w","e","i","c","l","o","u","d","_","v","p","c">>
S_vpc_id == <<"v","p","c","_","i","d">>
S_availability_zone == <<"a","v","a","i","l","a","b","i","l","i","t","y","_","z","o","n","e">>
S_huaweicloud_vpc_subnet == <<"h","u","a","w","e","i","c","l","o","u","d","_","v","p","c","_","s","u","b","n","e","t">>
S_name == <<"n","a","m","e">>
S_description == <<"d","e","s","c","r","i","p","t","i","o","n">>
S_ingress == <<"i","n","g","r","e","s","s">>
S_egress == <<"e","g","r","e","s","s">>
S_huaweicloud_networking_secgroup == <<"h","u","a","w","e","i","c","l","o","u","d","_","n","e","t","w","o","r","k","i","n","g","_","s","e","c","g","r","o","u","p">>
S_aws_instance == <<"a","w","s","_","i","n","s","t","a","n","c","e">>
S_aws_vpc == <<"a","w","s","_","v","p","c">>
S_aws_subnet == <<"a","w","s","_","s","u","b","n","e","t">>
S_aws_security_group == <<"a","w","s","_","s","e","c","u","r","i","t","y","_","g","r","o","u","p">>
S_huaweicloud == <<"h","u","a","w","e","i","c","l","o","u","d">>
S_region == <<"r","e","g","i","o","n">>
S_vm_size == <<"v","m","_","s","i","z","e">>
S_size == <<"s","i","z","e">>
S_storage_os_disk == <<"s","t","o","r","a","g","e","_","o","s","_","d","i","s","k">>
S_os_disk == <<"o","s","_","d","i","s","k">>
S_storage_image_reference == <<"s","t","o","r","a","g","e","_","i","m","a","g","e","_","r","e","f","e","r","e","n","c","e">>
S_source_image_reference == <<"s","o","u","r","c","e","_","i","m","a","g","e","_","r","e","f","e","r","e","n","c","e">>
S_id == <<"i","d">>
S_urn == <<"u","r","n">>
S_publisher == <<"p","u","b","l","i","s","h","e","r">>
S_network_interface_ids == <<"n","e","t","w","o","r","k","_","i","n","t","e","r","f","a","c","e","_","i","d","s">>
S_caching == <<"c","a","c","h","i","n","g">>
S_ReadWrite == <<"R","e","a","d","W","r","i","t","e">>
S_root_block_device == <<"r","o","o","t","_","b","l","o","c","k","_","d","e","v","i","c","e">>
S_delete_on_termination == <<"d","e","l","e","t","e","_","o","n","_","t","e","r","m","i","n","a","t","i","o","n">>
S_address_space == <<"a","d","d","r","e","s","s","_","s","p","a","c","e">>
S_address_prefixes == <<"a","d","d","r","e","s","s","_","p","r","e","f","i","x","e","s">>
S_address_prefix == <<"a","d","d","r","e","s","s","_","p","r","e","f","i","x">>
S_virtual_network_name == <<"v","i","r","t","u","a","l","_","n","e","t","w","o","r","k","_","n","a","m","e">>
S_azurerm_virtual_network == <<"a","z","u","r","e","r","m","_","v","i","r","t","u","a","l","_","n","e","t","w","o","r","k">>
S_security_rule == <<"s","e","c","u","r","i","t","y","_","r","u","l","e">>
S_azurerm_virtual_machine == <<"a","z","u","r","e","r","m","_","v","i","r","t","u","a","l","_","m","a","c","h","i","n","e">>
S_azurerm_linux_virtual_machine == <<"a","z","u","r","e","r","m","_","l","i","n","u","x","_","v","i","r","t","u","a","l","_","m","a","c","h","i","n","e">>
S_azurerm_subnet == <<"a","z","u","r","e","r","m","_","s","u","b","n","e","t">>
S_azurerm_network_security_group == <<"a","z","u","r","e","r","m","_","n","e","t","w","o","r","k","_","s","e","c","u","r","i","t","y","_","g","r","o","u","p">>
S_aws == <<"a","w","s">>
S_machine_type == <<"m","a","c","h","i","n","e","_","t","y","p","e">>
S_boot_disk == <<"b","o","o","t","_","d","i","s","k">>
S_initialize_params == <<"i","n","i","t","i","a","l","i","z","e","_","p","a","r","a","m","s">>
S_image == <<"i","m","a","g","e">>
S_location == <<"l","o","c","a","t","i","o","n">>
S_resource_group_name == <<"r","e","s","o","u","r","c","e","_","g","r","o","u","p","_","n","a","m","e">>
S_ip_configuration == <<"i","p","_","c","o","n","f","i","g","u","r","a","t","i","o","n">>
S_primary == <<"p","r","i","m","a","r","y">>
S_private_ip_address_allocation == <<"p","r","i","v","a","t","e","_","i","p","_","a","d","d","r","e","s","s","_","a","l","l","o","c","a","t","i","o","n">>
S_Dynamic == <<"D","y","n","a","m","i","c">>
S_public_ip_address_id == <<"p","u","b","l","i","c","_","i","p","_","a","d","d","r","e","s","s","_","i","d">>
S_can_ip_forward == <<"c","a","n","_","i","p","_","f","o","r","w","a","r","d">>
S_network_interface == <<"n","e","t","w","o","r","k","_","i","n","t","e","r","f","a","c","e">>
S_subnetwork == <<"s","u","b","n","e","t","w","o","r","k">>
S_subnetwork_self_link == <<"s","u","b","n","e","t","w","o","r","k","_","s","e","l","f","_","l","i","n","k">>
S_google_compute_subnetwork == <<"g","o","o","g","l","e","_","c","o","m","p","u","t","e","_","s","u","b","n","e","t","w","o","r","k">>
S_self_link == <<"s","e","l","f","_","l","i","n","k">>
S_access_config == <<"a","c","c","e","s","s","_","c","o","n","f","i","g">>
S_admin_username == <<"a","d","m","i","n","_","u","s","e","r","n","a","m","e">>
S_disable_password_authentication == <<"d","i","s","a","b","l","e","_","p","a","s","s","w","o","r","d","_","a","u","t","h","e","n","t","i","c","a","t","i","o","n">>
S_storage_account_type == <<"s","t","o","r","a","g","e","_","a","c","c","o","u","n","t","_","t","y","p","e">>
S_Standard_LRS == <<"S","t","a","n","d","a","r","d","_","L","R","S">>
S_source_image_id == <<"s","o","u","r","c","e","_","i","m","a","g","e","_","i","d">>
S_azurerm_network_interface == <<"a","z","u","r","e","r","m","_","n","e","t","w","o","r","k","_","i","n","t","e","r","f","a","c","e">>
S_auto_create_subnetworks == <<"a","u","t","o","_","c","r","e","a","t","e","_","s","u","b","n","e","t","w","o","r","k","s">>
S_routing_config == <<"r","o","u","t","i","n","g","_","c","o","n","f","i","g">>
S_ipv4_cidr_blocks == <<"i","p","v","4","_","c","i","d","r","_","b","l","o","c","k","s">>
S_ip_cidr_range == <<"i","p","_","c","i","d","r","_","r","a","n","g","e">>
S_network == <<"n","e","t","w","o","r","k">>
S_google_compute_network == <<"g","o","o","g","l","e","_","c","o","m","p","u","t","e","_","n","e","t","w","o","r","k">>
S_delegation == <<"d","e","l","e","g","a","t","i","o","n">>
S_service_delegation == <<"s","e","r","v","i","c","e","_","d","e","l","e","g","a","t","i","o","n">>
S_google_compute_instance == <<"g","o","o","g","l","e","_","c","o","m","p","u","t","e","_","i","n","s","t","a","n","c","e">>
S_google_compute_firewall == <<"g","o","o","g","l","e","_","c","o","m","p","u","t","e","_","f","i","r","e","w","a","l","l">>
S_azurerm == <<"a","z","u","r","e","r","m">>
S_features == <<"f","e","a","t","u","r","e","s">>
var_huaweicloud_region == <<"$","{","v","a","r",".","h","u","a","w","e","i","c","l","o","u","d","_","r","e","g","i","o","n","}">>
var_aws_region == <<"$","{","v","a","r",".","a","w","s","_","r","e","g","i","o","n","}">>
var_azure_location == <<"$","{","v","a","r",".","a","z","u","r","e","_","l","o","c","a","t","i","o","n","}">>
var_azure_resource_group == <<"$","{","v","a","r",".","a","z","u","r","e","_","r","e","s","o","u","r","c","e","_","g","r","o","u","p","}">>
var_azure_subnet_id == <<"$","{","v","a","r",".","a","z","u","r","e","_","s","u","b","n","e","t","_","i","d","}">>
var_azure_public_ip_id == <<"$","{","v","a","r",".","a","z","u","r","e","_","p","u","b","l","i","c","_","i","p","_","i","d","}">>
var_azure_admin_username == <<"$","{","v","a","r",".","a","z","u","r","e","_","a","d","m","i","n","_","u","s","e","r","n","a","m","e","}">>
var_azure_vnet_cidr == <<"$","{","v","a","r",".","a","z","u","r","e","_","v","n","e","t","_","c","i","d","r","}">>
var_azure_vnet_name == <<"$","{","v","a","r",".","a","z","u","r","e","_","v","n","e","t","_","n","a","m","e","}">>
MSG_secgroup_rules == <<"S","e","c","u","r","i","t","y"," ","g","r","o","u","p"," ","r","u","l","e","s"," ","m","u","s","t"," ","b","e"," ","m","i","g","r","a","t","e","d"," ","m","a","n","u","a","l","l","y"," ","b","e","c","a","u","s","e"," ","H","u","a","w","e","i"," ","C","l","o","u","d"," ","m","a","n","a","g","e","s"," ","t","h","e","m"," ","t","h","r","o","u","g","h"," ","s","e","p","a","r","a","t","e"," ","h","u","a","w","e","i","c","l","o","u","d","_","n","e","t","w","o","r","k","i","n","g","_","s","e","c","g","r","o","u","p","_","r","u","l","e"," ","r","e","s","o","u","r","c","e","s",".">>
MSG_vm_missing_size == <<"A","z","u","r","e"," ","v","i","r","t","u","a","l"," ","m","a","c","h","i","n","e"," ","d","e","f","i","n","i","t","i","o","n"," ","i","s"," ","m","i","s","s","i","n","g"," ","v","m","_","s","i","z","e","/","s","i","z","e",".">>
MSG_vm_missing_image == <<"A","z","u","r","e"," ","v","i","r","t","u","a","l"," ","m","a","c","h","i","n","e"," ","i","s"," ","m","i","s","s","i","n","g"," ","'","s","t","o","r","a","g","e","_","i","m","a","g","e","_","r","e","f","e","r","e","n","c","e",".","i","d","'"," ","o","r"," ","'",".","u","r","n","'"," ","r","e","q","u","i","r","e","d"," ","t","o"," ","m","a","p"," ","t","o"," ","a","n"," ","A","W","S"," ","A","M","I",".">>
MSG_vnet_no_cidr == <<"V","i","r","t","u","a","l"," ","n","e","t","w","o","r","k"," ","m","u","s","t"," ","d","e","f","i","n","e"," ","a","t"," ","l","e","a","s","t"," ","o","n","e"," ","C","I","D","R"," ","b","l","o","c","k",".">>
MSG_subnet_no_vnet == <<"S","u","b","n","e","t","s"," ","m","u","s","t"," ","r","e","f","e","r","e","n","c","e"," ","v","i","r","t","u","a","l","_","n","e","t","w","o","r","k","_","n","a","m","e"," ","s","o"," ","i","t"," ","c","a","n"," ","b","e"," ","m","a","p","p","e","d"," ","t","o"," ","t","h","e"," ","t","a","r","g","e","t"," ","V","P","C",".">>
MSG_nsg_rules == <<"N","e","t","w","o","r","k"," ","s","e","c","u","r","i","t","y"," ","g","r","o","u","p"," ","r","u","l","e","s"," ","c","a","n","n","o","t"," ","b","e"," ","t","r","a","n","s","l","a","t","e","d"," ","a","u","t","o","m","a","t","i","c","a","l","l","y","."," ","P","l","e","a","s","e"," ","r","e","c","r","e","a","t","e"," ","t","h","e","m"," ","u","s","i","n","g"," ","a","w","s","_","s","e","c","u","r","i","t","y","_","g","r","o","u","p","_","r","u","l","e",".">>
MSG_gcp_missing_image == <<"C","o","m","p","u","t","e"," ","i","n","s","t","a","n","c","e"," ","m","i","s","s","i","n","g"," ","b","o","o","t","_","d","i","s","k",".","i","n","i","t","i","a","l","i","z","e","_","p","a","r","a","m","s",".","i","m","a","g","e"," ","f","o","r"," ","A","z","u","r","e"," ","c","o","n","v","e","r","s","i","o","n",".">>
MSG_gcp_auto_subnets == <<"V","P","C"," ","n","e","t","w","o","r","k","s"," ","w","i","t","h"," ","a","u","t","o","_","c","r","e","a","t","e","_","s","u","b","n","e","t","w","o","r","k","s"," ","c","a","n","n","o","t"," ","b","e"," ","m","a","p","p","e","d"," ","t","o"," ","A","z","u","r","e"," ","V","N","e","t","s"," ","a","u","t","o","m","a","t","i","c","a","l","l","y",".">>
MSG_gcp_firewall == <<"G","C","P"," ","f","i","r","e","w","a","l","l"," ","r","u","l","e","s"," ","m","u","s","t"," ","b","e"," ","r","e","c","r","e","a","t","e","d"," ","m","a","n","u","a","l","l","y"," ","u","s","i","n","g"," ","a","z","u","r","e","r","m","_","n","e","t","w","o","r","k","_","s","e","c","u","r","i","t","y","_","g","r","o","u","p","_","r","u","l","e",".">>
NOTICE_huawei == <<"N","o"," ","e","q","u","i","v","a","l","e","n","t"," ","H","u","a","w","e","i"," ","C","l","o","u","d"," ","r","e","s","o","u","r","c","e"," ","i","s"," ","a","v","a","i","l","a","b","l","e"," ","i","n"," ","t","h","e"," ","a","u","t","o","m","a","t","e","d"," ","c","o","n","v","e","r","t","e","r"," ","y","e","t",".">>
NOTICE_aws == <<"P","l","e","a","s","e"," ","u","p","d","a","t","e"," ","s","c","r","i","p","t","s","/","t","e","r","r","a","f","o","r","m","_","c","o","n","v","e","r","t","e","r",".","p","y"," ","w","i","t","h"," ","t","h","e"," ","m","i","s","s","i","n","g"," ","A","z","u","r","e"," ","r","e","s","o","u","r","c","e"," ","m","a","p","p","i","n","g",".">>
NOTICE_azure == <<"T","h","e"," ","c","o","n","v","e","r","t","e","r"," ","c","u","r","r","e","n","t","l","y"," ","s","u","p","p","o","r","t","s"," ","c","o","m","p","u","t","e"," ","i","n","s","t","a","n","c","e","s",","," ","n","e","t","w","o","r","k","s"," ","a","n","d"," ","b","a","s","i","c"," ","t","a","g","s",".">>
F_unsupported == <<"U","n","s","u","p","p","o","r","t","e","d"," ","r","e","s","o","u","r","c","e"," ","'">>
F_quote_dot_space == <<"'","."," ">>
F_dot == <<".">>
F_colon_space == <<":"," ">>
F_resource_quote == <<"R","e","s","o","u","r","c","e"," ","'">>
F_missing_required == <<"'"," ","i","s"," ","m","i","s","s","i","n","g"," ","r","e","q","u","i","r","e","d"," ","f","i","e","l","d","s",":"," ">>
F_comma_space == <<","," ">>
F_dot_name == <<".","n","a","m","e">>
F_dot_id == <<".","i","d">>
F_nic == <<"_","n","i","c">>
F_nic_ref_open == <<"$","{","a","z","u","r","e","r","m","_","n","e","t","w","o","r","k","_","i","n","t","e","r","f","a","c","e",".">>
F_nic_ref_close == <<".","i","d","}">>
F_os_disk == <<"-","o","s","-","d","i","s","k">>
F_delegation == <<"-","d","e","l","e","g","a","t","i","o","n">>
F_ms_network == <<"M","i","c","r","o","s","o","f","t",".","N","e","t","w","o","r","k","/">>
IN_x == <<"x">>
IN_y == <<"y">>
IN_main == <<"m","a","i","n">>
IN_name_main == <<"n","a","m","e","_","m","a","i","n">>
IN_ami == <<"a","m","i","-","1">>
IN_flavor == <<"t","2">>
IN_cidr == <<"1","0",".","0",".","0",".","0","/","1","6">>
IN_key == <<"k","1">>
IN_custom == <<"c","u","s","t","o","m">>
IN_img == <<"i","m","g">>
IN_eu == <<"e","u">>
IN_variable == <<"v","a","r","i","a","b","l","e">>
IN_other == <<"o","t","h","e","r">>
IN_aws_s3_bucket == <<"a","w","s","_","s","3","_","b","u","c","k","e","t">>
IN_azurerm_storage_account == <<"a","z","u","r","e","r","m","_","s","t","o","r","a","g","e","_","a","c","c","o","u","n","t">>
IN_google_storage_bucket == <<"g","o","o","g","l","e","_","s","t","o","r","a","g","e","_","b","u","c","k","e","t">>
IN_ref_open == <<"$","{">>
IN_ref_close == <<"}">>
IN_subnet_ref == <<"$","{","g","o","o","g","l","e","_","c","o","m","p","u","t","e","_","s","u","b","n","e","t","w","o","r","k",".","m","a","i","n",".","s","e","l","f","_","l","i","n","k","}">>
IN_network_ref == <<"$","{","g","o","o","g","l","e","_","c","o","m","p","u","t","e","_","n","e","t","w","o","r","k",".","m","a","i","n",".","n","a","m","e","}">>
IN_vnet_ref == <<"$","{","a","z","u","r","e","r","m","_","v","i","r","t","u","a","l","_","n","e","t","w","o","r","k",".","m","a","i","n",".","n","a","m","e","}">>

(***************************************************************************)
(* JSON values as Python sees them after json.loads / hcl2.loads.          *)
(***************************************************************************)
None == [t |-> "none", s |-> <<>>, b |-> FALSE, l |-> <<>>, m |-> <<>>]
Str(chars) == [t |-> "str", s |-> chars, b |-> FALSE, l |-> <<>>, m |-> <<>>]
Bool(bv) == [t |-> "bool", s |-> <<>>, b |-> bv, l |-> <<>>, m |-> <<>>]
List(elems) == [t |-> "list", s |-> <<>>, b |-> FALSE, l |-> elems, m |-> <<>>]
Dict(items) == [t |-> "dict", s |-> <<>>, b |-> FALSE, l |-> <<>>, m |-> items]
Item(key, val) == [k |-> key, v |-> val]
EmptyDict == Dict(<<>>)

IsDict(v) == v.t = "dict"
IsList(v) == v.t = "list"
IsStr(v) == v.t = "str"

\* bool(v)
Truthy(v) ==
    CASE v.t = "none" -> FALSE
      [] v.t = "bool" -> v.b
      [] v.t = "str"  -> Len(v.s) > 0
      [] v.t = "list" -> Len(v.l) > 0
      [] v.t = "dict" -> Len(v.m) > 0

\* a or b
Or(a, b) == IF Truthy(a) THEN a ELSE b

\* sub in s, for two strings
Contains(s, sub) ==
    \E i \in 1..(Len(s) - Len(sub) + 1) : SubSeq(s, i, i + Len(sub) - 1) = sub

\* key in d, for a dict d
HasKey(d, key) == \E i \in 1..Len(d.m) : d.m[i].k = key

\* d[key], for a key of the dict d
Lookup(d, key) == d.m[CHOOSE i \in 1..Len(d.m) : d.m[i].k = key].v

\* d.get(key, default)
Get(d, key, default) == IF HasKey(d, key) THEN Lookup(d, key) ELSE default

\* d[key] = val: an existing key keeps its position, a new key goes last
DictSet(d, key, val) ==
    IF HasKey(d, key)
    THEN Dict([i \in 1..Len(d.m) |->
                 IF d.m[i].k = key THEN Item(key, val) ELSE d.m[i]])
    ELSE Dict(Append(d.m, Item(key, val)))

\* d.update(other)
RECURSIVE UpdateFrom(_, _, _)
UpdateFrom(d, items, i) ==
    IF i > Len(items) THEN d
    ELSE UpdateFrom(DictSet(d, items[i].k, items[i].v), items, i + 1)

DictUpdate(d, other) == UpdateFrom(d, other.m, 1)

\* d.pop(key), for a key of the dict d
DictPop(d, key) == Dict(SelectSeq(d.m, LAMBDA it : it.k # key))

\* `key in v` is defined for dict, list and str; it is a TypeError otherwise
CanIn(v) == v.t \in {"dict", "list", "str"}

\* key in v
In(key, v) ==
    CASE v.t = "dict" -> HasKey(v, key)
      [] v.t = "list" -> \E i \in 1..Len(v.l) : v.l[i] = Str(key)
      [] v.t = "str"  -> Contains(v.s, key)
      [] OTHER        -> FALSE

\* s.replace(old, new), for a non-empty old
RECURSIVE ReplaceFrom(_, _, _, _)
ReplaceFrom(s, old, new, i) ==
    IF i > Len(s) THEN <<>>
    ELSE IF i + Len(old) - 1 <= Len(s) /\ SubSeq(s, i, i + Len(old) - 1) = old
         THEN new \o ReplaceFrom(s, old, new, i + Len(old))
         ELSE <<s[i]>> \o ReplaceFrom(s, old, new, i + 1)

Replace(s, old, new) == ReplaceFrom(s, old, new, 1)

\* sep.join(parts)
RECURSIVE JoinFrom(_, _, _)
JoinFrom(parts, sep, i) ==
    IF i > Len(parts) THEN <<>>
    ELSE IF i = Len(parts) THEN parts[i]
    ELSE parts[i] \o sep \o JoinFrom(parts, sep, i + 1)

Join(parts, sep) == JoinFrom(parts, sep, 1)

\* s.strip(): whitespace removed at both ends
Whitespace == {" ", "\t", "\n", "\r"}

RECURSIVE LStrip(_)
LStrip(s) == IF s # <<>> /\ Head(s) \in Whitespace THEN LStrip(Tail(s)) ELSE s

RECURSIVE RStrip(_)
RStrip(s) ==
    IF s # <<>> /\ s[Len(s)] \in Whitespace
    THEN RStrip(SubSeq(s, 1, Len(s) - 1)) ELSE s

Strip(s) == RStrip(LStrip(s))

\* repr(v) and str(v), as an f-string formats a value (strings of the model
\* hold no quote and no backslash, so repr quotes them with single quotes)
RECURSIVE Repr(_)
RECURSIVE ReprElems(_, _)
RECURSIVE ReprItems(_, _)
Repr(v) ==
    CASE v.t = "none" -> <<"N","o","n","e">>
      [] v.t = "bool" -> IF v.b THEN <<"T","r","u","e">>
                         ELSE <<"F","a","l","s","e">>
      [] v.t = "str"  -> <<"'">> \o v.s \o <<"'">>
      [] v.t = "list" -> <<"[">> \o ReprElems(v.l, 1) \o <<"]">>
      [] v.t = "dict" -> <<"{">> \o ReprItems(v.m, 1) \o <<"}">>
ReprElems(l, i) ==
    IF i > Len(l) THEN <<>>
    ELSE Repr(l[i]) \o (IF i < Len(l) THEN <<",", " ">> ELSE <<>>)
         \o ReprElems(l, i + 1)
ReprItems(m, i) ==
    IF i > Len(m) THEN <<>>
    ELSE <<"'">> \o m[i].k \o <<"'", ":", " ">> \o Repr(m[i].v)
         \o (IF i < Len(m) THEN <<",", " ">> ELSE <<>>)
         \o ReprItems(m, i + 1)

PyStr(v) == IF IsStr(v) THEN v.s ELSE Repr(v)

(***************************************************************************)
(* Results of calls: st is "ok" or the class of the exception raised.      *)
(***************************************************************************)
RCE == "ResourceConversionError"

\* a ResourceEntry (type, name, body)
Entry(r_type, name, body) == [type |-> r_type, name |-> name, body |-> body]

\* a converter returns a list of entries
Return(entries) == [st |-> "ok", out |-> entries, val |-> None, msg |-> <<>>]
\* a helper returns a value
Value(v) == [st |-> "ok", out |-> <<>>, val |-> v, msg |-> <<>>]
\* raise ResourceConversionError(msg)
Fail(msg) == [st |-> RCE, out |-> <<>>, val |-> None, msg |-> msg]
\* an exception of another class raised by the interpreter
Raise(class) == [st |-> class, out |-> <<>>, val |-> None, msg |-> <<>>]

(***************************************************************************)
(* Field validation and copying.                                           *)
(***************************************************************************)
\* missing = [field for field in required_fields if field not in body]
Missing(required_fields, body) ==
    SelectSeq(required_fields, LAMBDA field : ~In(field, body))

_validate_fields(required_fields, resource_name, body) ==
    IF required_fields # <<>> /\ ~CanIn(body) THEN Raise("TypeError")
    ELSE IF Missing(required_fields, body) # <<>>
    THEN Fail(F_resource_quote \o resource_name \o F_missing_required
              \o Join(Missing(required_fields, body), F_comma_space))
    ELSE Value(None)

\* {target: body[source] for source, target in allowed_fields if source in body}
RECURSIVE CopyFrom(_, _, _, _)
CopyFrom(acc, body, allowed_fields, i) ==
    IF i > Len(allowed_fields) THEN acc
    ELSE CopyFrom(IF HasKey(body, allowed_fields[i][1])
                  THEN DictSet(acc, allowed_fields[i][2],
                               Lookup(body, allowed_fields[i][1]))
                  ELSE acc,
                  body, allowed_fields, i + 1)

_copy_common_fields(body, allowed_fields) ==
    IF allowed_fields # <<>> /\ ~CanIn(body) THEN Raise("TypeError")
    ELSE IF ~IsDict(body)
            /\ \E i \in 1..Len(allowed_fields) : In(allowed_fields[i][1], body)
    THEN Raise("TypeError")   \* body[source] on a list or a string
    ELSE IF ~IsDict(body) THEN Value(EmptyDict)
    ELSE Value(CopyFrom(EmptyDict, body, allowed_fields, 1))

\* d[key] = body[key'] guarded by `if tags := body.get("tags")`
SetIfTruthy(d, key, val) == IF Truthy(val) THEN DictSet(d, key, val) ELSE d

(***************************************************************************)
(* AWS -> Huawei Cloud                                                     *)
(***************************************************************************)
aws_instance_field_map ==
    << <<S_subnet_id, S_subnet_id>>,
       <<S_associate_public_ip_address, S_assign_public_ip>>,
       <<S_key_name, S_key_pair>>,
       <<S_tags, S_tags>> >>

_convert_aws_instance(name, body) ==
    LET checked == _validate_fields(<<S_ami, S_instance_type>>, name, body)
    IN IF checked.st # "ok" THEN checked
       ELSE IF ~IsDict(body) THEN Raise("TypeError")   \* body["ami"]
       ELSE
       LET mapped0 == Dict(<<Item(S_image_id, Lookup(body, S_ami)),
                             Item(S_flavor_name, Lookup(body, S_instance_type))>>)
           mapped1 == DictUpdate(mapped0,
                          _copy_common_fields(body, aws_instance_field_map).val)
           mapped2 == IF HasKey(body, S_vpc_security_group_ids)
                      THEN DictSet(mapped1, S_security_groups,
                                   Lookup(body, S_vpc_security_group_ids))
                      ELSE mapped1
       IN Return(<<Entry(S_huaweicloud_compute_instance, name, mapped2)>>)

_convert_aws_vpc(name, body) ==
    LET checked == _validate_fields(<<S_cidr_block>>, name, body)
    IN IF checked.st # "ok" THEN checked
       ELSE IF ~IsDict(body) THEN Raise("TypeError")   \* body["cidr_block"]
       ELSE
       LET mapped0 == Dict(<<Item(S_cidr, Lookup(body, S_cidr_block))>>)
           mapped1 == DictUpdate(mapped0,
                          _copy_common_fields(body,
                              << <<S_tags, S_tags>>,
                                 <<S_enable_dns_hostnames, S_enable_dns_hostnames>> >>).val)
       IN Return(<<Entry(S_huaweicloud_vpc, name, mapped1)>>)

_convert_aws_subnet(name, body) ==
    LET checked == _validate_fields(<<S_vpc_id, S_cidr_block>>, name, body)
    IN IF checked.st # "ok" THEN checked
       ELSE IF ~IsDict(body) THEN Raise("TypeError")   \* body["vpc_id"]
       ELSE
       LET mapped0 == Dict(<<Item(S_vpc_id, Lookup(body, S_vpc_id)),
                             Item(S_cidr, Lookup(body, S_cidr_block))>>)
           mapped1 == DictUpdate(mapped0,
                          _copy_common_fields(body,
                              << <<S_availability_zone, S_availability_zone>>,
                                 <<S_tags, S_tags>> >>).val)
       IN Return(<<Entry(S_huaweicloud_vpc_subnet, name, mapped1)>>)

\* the rule test as _convert_azure_nsg writes it: an empty rule list passes
_convert_aws_security_group_truthy(name, body) ==
    LET copied == _copy_common_fields(body,
                      << <<S_name, S_name>>,
                         <<S_description, S_description>>,
                         <<S_tags, S_tags>> >>)
    IN IF copied.st # "ok" THEN copied
       ELSE IF Truthy(Get(body, S_ingress, None)) \/ Truthy(Get(body, S_egress, None))
       THEN Fail(MSG_secgroup_rules)
       ELSE Return(<<Entry(S_huaweicloud_networking_secgroup, name, copied.val)>>)

_convert_aws_security_group(name, body) ==
    LET copied == _copy_common_fields(body,
                      << <<S_name, S_name>>,
                         <<S_description, S_description>>,
                         <<S_tags, S_tags>> >>)
    IN IF copied.st # "ok" THEN copied
       ELSE IF In(S_ingress, body) \/ In(S_egress, body)
       THEN Fail(MSG_secgroup_rules)
       ELSE Return(<<Entry(S_huaweicloud_networking_secgroup, name, copied.val)>>)

HUAWEI_PROVIDER_BLOCK ==
    Dict(<<Item(S_huaweicloud,
                Dict(<<Item(S_region, Str(var_huaweicloud_region))>>))>>)

(***************************************************************************)
(* Azure -> AWS                                                            *)
(***************************************************************************)
_convert_azure_vm(name, body) ==
    IF ~IsDict(body) THEN Raise("AttributeError")   \* body.get
    ELSE
    LET instance_type == Or(Get(body, S_vm_size, None), Get(body, S_size, None))
        os_disk == Or(Or(Get(body, S_storage_os_disk, None),
                         Get(body, S_os_disk, None)), EmptyDict)
        image_reference == Or(Or(Get(body, S_storage_image_reference, None),
                                 Get(body, S_source_image_reference, None)),
                              EmptyDict)
        ami == Or(Or(Get(image_reference, S_id, None),
                     Get(image_reference, S_urn, None)),
                  Get(image_reference, S_publisher, None))
        mapped0 == Dict(<<Item(S_instance_type, instance_type)>>)
        mapped1 == DictSet(mapped0, S_ami, ami)
        mapped2 == SetIfTruthy(mapped1, S_network_interface_ids,
                               Get(body, S_network_interface_ids, None))
        mapped3 == SetIfTruthy(mapped2, S_tags, Get(body, S_tags, None))
        mapped4 == IF Get(os_disk, S_caching, None) = Str(S_ReadWrite)
                   THEN DictSet(mapped3, S_root_block_device,
                            Dict(<<Item(S_delete_on_termination, Bool(TRUE))>>))
                   ELSE mapped3
    IN IF ~Truthy(instance_type) THEN Fail(MSG_vm_missing_size)
       ELSE IF ~IsDict(image_reference) THEN Raise("AttributeError")
       ELSE IF ~Truthy(ami) THEN Fail(MSG_vm_missing_image)
       ELSE IF ~IsDict(os_disk) THEN Raise("AttributeError")
       ELSE Return(<<Entry(S_aws_instance, name, mapped4)>>)

_convert_azure_vnet(name, body) ==
    LET checked == _validate_fields(<<S_address_space>>, name, body)
    IN IF checked.st # "ok" THEN checked
       ELSE IF ~IsDict(body) THEN Raise("AttributeError")   \* body.get
       ELSE
       LET spaces == Or(Get(body, S_address_space, None), EmptyDict)
           cidrs == IF IsDict(spaces)
                    THEN Or(Get(spaces, S_address_prefixes, None),
                            Get(spaces, S_address_prefix, None))
                    ELSE spaces
           mapped0 == Dict(<<Item(S_cidr_block,
                                  IF IsList(cidrs) THEN cidrs.l[1] ELSE cidrs)>>)
           mapped1 == SetIfTruthy(mapped0, S_tags, Get(body, S_tags, None))
       IN IF ~Truthy(cidrs) THEN Fail(MSG_vnet_no_cidr)
          ELSE Return(<<Entry(S_aws_vpc, name, mapped1)>>)

\* vnet_name.replace("azurerm_virtual_network", "aws_vpc").replace(".name", ".id")
RewriteVnetReference(vnet_name) ==
    Replace(Replace(vnet_name, S_azurerm_virtual_network, S_aws_vpc),
            F_dot_name, F_dot_id)

_convert_azure_subnet(name, body) ==
    LET checked == _validate_fields(<<S_address_prefix>>, name, body)
    IN IF checked.st # "ok" THEN checked
       ELSE IF ~IsDict(body) THEN Raise("TypeError")   \* body["address_prefix"]
       ELSE
       LET mapped0 == Dict(<<Item(S_cidr_block, Lookup(body, S_address_prefix))>>)
           vnet_name == Get(body, S_virtual_network_name, None)
           mapped1 == DictSet(mapped0, S_vpc_id,
                          IF Contains(vnet_name.s, S_azurerm_virtual_network)
                          THEN Str(RewriteVnetReference(vnet_name.s))
                          ELSE vnet_name)
           mapped2 == SetIfTruthy(mapped1, S_tags, Get(body, S_tags, None))
       IN IF ~IsStr(vnet_name) THEN Fail(MSG_subnet_no_vnet)
          ELSE Return(<<Entry(S_aws_subnet, name, mapped2)>>)

_convert_azure_nsg(name, body) ==
    LET copied == _copy_common_fields(body,
                      << <<S_name, S_name>>, <<S_tags, S_tags>> >>)
    IN IF copied.st # "ok" THEN copied
       ELSE IF ~IsDict(body) THEN Raise("AttributeError")   \* body.get
       ELSE IF Truthy(Get(body, S_security_rule, None))
       THEN Fail(MSG_nsg_rules)
       ELSE Return(<<Entry(S_aws_security_group, name, copied.val)>>)

AWS_PROVIDER_BLOCK ==
    Dict(<<Item(S_aws, Dict(<<Item(S_region, Str(var_aws_region))>>))>>)

(***************************************************************************)
(* Google Cloud -> Azure                                                   *)
(***************************************************************************)
\* subnet.replace("google_compute_subnetwork", "azurerm_subnet").replace("self_link", "id")
RewriteSubnetReference(subnet) ==
    Replace(Replace(subnet, S_google_compute_subnetwork, S_azurerm_subnet),
            S_self_link, S_id)

_convert_gcp_instance(name, body) ==
    LET checked == _validate_fields(<<S_machine_type>>, name, body)
    IN IF checked.st # "ok" THEN checked
       ELSE IF ~IsDict(body) THEN Raise("AttributeError")   \* body.get
       ELSE
       LET boot_disk0 == Get(body, S_boot_disk, EmptyDict)
           boot_disk == IF IsList(boot_disk0) THEN boot_disk0.l[1] ELSE boot_disk0
           image_params == IF IsDict(boot_disk)
                           THEN Get(boot_disk, S_initialize_params, EmptyDict)
                           ELSE EmptyDict
           source_image == Get(image_params, S_image, None)
           nic_name == name \o F_nic
           ip_config0 ==
               Dict(<<Item(S_name, Str(S_primary)),
                      Item(S_subnet_id, Str(var_azure_subnet_id)),
                      Item(S_private_ip_address_allocation, Str(S_Dynamic)),
                      Item(S_public_ip_address_id,
                           IF Truthy(Get(body, S_can_ip_forward, None))
                           THEN Str(var_azure_public_ip_id) ELSE None)>>)
           network_interface == Get(body, S_network_interface, None)
           first_nic == network_interface.l[1]
           subnet == Or(Get(first_nic, S_subnetwork, None),
                        Get(first_nic, S_subnetwork_self_link, None))
           UsesFirst == IsList(network_interface) /\ IsDict(first_nic)
           ip_config1 == IF UsesFirst /\ Truthy(subnet)
                         THEN DictSet(ip_config0, S_subnet_id,
                                      Str(RewriteSubnetReference(subnet.s)))
                         ELSE ip_config0
           ip_config2 == IF UsesFirst /\ Truthy(Get(first_nic, S_access_config, None))
                         THEN DictSet(ip_config1, S_public_ip_address_id,
                                      Str(var_azure_public_ip_id))
                         ELSE ip_config1
           \* Clean optional None entries from NIC configuration.
           ip_config == IF Get(ip_config2, S_public_ip_address_id, None) = None
                        THEN DictPop(ip_config2, S_public_ip_address_id)
                        ELSE ip_config2
           nic_body ==
               Dict(<<Item(S_name, Str(nic_name)),
                      Item(S_location, Str(var_azure_location)),
                      Item(S_resource_group_name, Str(var_azure_resource_group)),
                      Item(S_ip_configuration, List(<<ip_config>>))>>)
           vm_body0 ==
               Dict(<<Item(S_name, Str(name)),
                      Item(S_location, Str(var_azure_location)),
                      Item(S_resource_group_name, Str(var_azure_resource_group)),
                      Item(S_size, Lookup(body, S_machine_type)),
                      Item(S_admin_username, Str(var_azure_admin_username)),
                      Item(S_disable_password_authentication, Bool(TRUE)),
                      Item(S_network_interface_ids,
                           List(<<Str(F_nic_ref_open \o nic_name \o F_nic_ref_close)>>)),
                      Item(S_os_disk,
                           Dict(<<Item(S_name, Str(name \o F_os_disk)),
                                  Item(S_caching, Str(S_ReadWrite)),
                                  Item(S_storage_account_type, Str(S_Standard_LRS))>>)),
                      Item(S_source_image_id, source_image)>>)
           vm_body == SetIfTruthy(vm_body0, S_tags, Get(body, S_tags, None))
       IN IF IsList(boot_disk0) /\ boot_disk0.l = <<>>
          THEN Raise("IndexError")       \* boot_disk[0]
          ELSE IF ~IsDict(image_params)
          THEN Raise("AttributeError")   \* image_params.get
          ELSE IF ~Truthy(source_image) THEN Fail(MSG_gcp_missing_image)
          ELSE IF IsList(network_interface) /\ network_interface.l = <<>>
          THEN Raise("IndexError")       \* body["network_interface"][0]
          ELSE IF UsesFirst /\ Truthy(subnet) /\ ~IsStr(subnet)
          THEN Raise("AttributeError")   \* subnet.replace
          ELSE Return(<<Entry(S_azurerm_network_interface, nic_name, nic_body),
                        Entry(S_azurerm_linux_virtual_machine, name, vm_body)>>)

_convert_gcp_network(name, body) ==
    IF ~IsDict(body) THEN Raise("AttributeError")   \* body.get
    ELSE
    LET auto == Get(body, S_auto_create_subnetworks, Bool(TRUE))
        routing_config == Get(body, S_routing_config, EmptyDict)
        address_prefixes0 == Get(routing_config, S_ipv4_cidr_blocks, None)
        address_prefixes == IF ~Truthy(address_prefixes0)
                            THEN List(<<Str(var_azure_vnet_cidr)>>)
                            ELSE address_prefixes0
        mapped ==
            Dict(<<Item(S_name, Get(body, S_name, Str(name))),
                   Item(S_location, Str(var_azure_location)),
                   Item(S_resource_group_name, Str(var_azure_resource_group)),
                   Item(S_address_space, address_prefixes)>>)
    IN IF Truthy(auto) THEN Fail(MSG_gcp_auto_subnets)
       ELSE IF ~IsDict(routing_config) THEN Raise("AttributeError")
       ELSE Return(<<Entry(S_azurerm_virtual_network, name, mapped)>>)

\* network_ref.replace("google_compute_network", "azurerm_virtual_network").replace(".name", "")
RewriteNetworkReference(network_ref) ==
    Replace(Replace(network_ref, S_google_compute_network, S_azurerm_virtual_network),
            F_dot_name, <<>>)

_convert_gcp_subnetwork(name, body) ==
    LET checked == _validate_fields(<<S_ip_cidr_range>>, name, body)
    IN IF checked.st # "ok" THEN checked
       ELSE IF ~IsDict(body) THEN Raise("AttributeError")   \* body.get
       ELSE
       LET network_ref0 == Or(Get(body, S_network, None), Str(var_azure_vnet_name))
           network_ref == IF IsStr(network_ref0)
                             /\ Contains(network_ref0.s, S_google_compute_network)
                          THEN Str(RewriteNetworkReference(network_ref0.s))
                          ELSE network_ref0
           mapped0 ==
               Dict(<<Item(S_name, Get(body, S_name, Str(name))),
                      Item(S_resource_group_name, Str(var_azure_resource_group)),
                      Item(S_virtual_network_name,
                           IF IsStr(network_ref) THEN network_ref
                           ELSE Str(var_azure_vnet_name)),
                      Item(S_address_prefixes,
                           List(<<Lookup(body, S_ip_cidr_range)>>))>>)
           region == Get(body, S_region, None)
           mapped == IF Truthy(region)
                     THEN DictSet(mapped0, S_delegation,
                              List(<<Dict(<<
                                  Item(S_name, Str(name \o F_delegation)),
                                  Item(S_service_delegation,
                                       Dict(<<Item(S_name,
                                           Str(F_ms_network \o PyStr(region)))>>))>>)>>))
                     ELSE mapped0
       IN Return(<<Entry(S_azurerm_subnet, name, mapped)>>)

\* a converter that drops the resource: no target entry and no failure
_convert_gcp_firewall_silent(name, body) == Return(<<>>)

_convert_gcp_firewall(name, body) == Fail(MSG_gcp_firewall)

AZURE_PROVIDER_BLOCK ==
    Dict(<<Item(S_azurerm, Dict(<<Item(S_features, EmptyDict)>>))>>)

(***************************************************************************)
(* The three registries and the wrappers' arguments.                       *)
(***************************************************************************)
Pairs == {"aws_to_huaweicloud", "azure_to_aws", "gcp_to_azure"}

AWS_TO_HUAWEI_CONVERTERS ==
    {S_aws_instance, S_aws_vpc, S_aws_subnet, S_aws_security_group}

AZURE_TO_AWS_CONVERTERS ==
    {S_azurerm_virtual_machine, S_azurerm_linux_virtual_machine,
     S_azurerm_virtual_network, S_azurerm_subnet,
     S_azurerm_network_security_group}

GCP_TO_AZURE_CONVERTERS ==
    {S_google_compute_instance, S_google_compute_network,
     S_google_compute_subnetwork, S_google_compute_firewall}

\* resource_converters, as the wrapper of provider pair p passes it
Registry(p) ==
    CASE p = "aws_to_huaweicloud" -> AWS_TO_HUAWEI_CONVERTERS
      [] p = "azure_to_aws"       -> AZURE_TO_AWS_CONVERTERS
      [] p = "gcp_to_azure"       -> GCP_TO_AZURE_CONVERTERS

\* provider_block
ProviderBlock(p) ==
    CASE p = "aws_to_huaweicloud" -> HUAWEI_PROVIDER_BLOCK
      [] p = "azure_to_aws"       -> AWS_PROVIDER_BLOCK
      [] p = "gcp_to_azure"       -> AZURE_PROVIDER_BLOCK

\* unsupported_notice
Notice(p) ==
    CASE p = "aws_to_huaweicloud" -> NOTICE_huawei
      [] p = "azure_to_aws"       -> NOTICE_aws
      [] p = "gcp_to_azure"       -> NOTICE_azure

\* resource_converters[r_type](name, body)
Converter(r_type, name, body) ==
    CASE r_type = S_aws_instance -> _convert_aws_instance(name, body)
      [] r_type = S_aws_vpc -> _convert_aws_vpc(name, body)
      [] r_type = S_aws_subnet -> _convert_aws_subnet(name, body)
      [] r_type = S_aws_security_group -> _convert_aws_security_group(name, body)
      [] r_type = S_azurerm_virtual_machine -> _convert_azure_vm(name, body)
      [] r_type = S_azurerm_linux_virtual_machine -> _convert_azure_vm(name, body)
      [] r_type = S_azurerm_virtual_network -> _convert_azure_vnet(name, body)
      [] r_type = S_azurerm_subnet -> _convert_azure_subnet(name, body)
      [] r_type = S_azurerm_network_security_group -> _convert_azure_nsg(name, body)
      [] r_type = S_google_compute_instance -> _convert_gcp_instance(name, body)
      [] r_type = S_google_compute_network -> _convert_gcp_network(name, body)
      [] r_type = S_google_compute_subnetwork -> _convert_gcp_subnetwork(name, body)
      [] r_type = S_google_compute_firewall -> _convert_gcp_firewall(name, body)

(***************************************************************************)
(* iter_resources: the entries the generator yields, in order, and the     *)
(* exception ("none" if none) it raises after yielding them.               *)
(***************************************************************************)
Yield(entries) == [entries |-> entries, exc |-> "none"]
IterRaise(class) == [entries |-> <<>>, exc |-> class]

\* what `a` yields, then what `b` yields, unless `a` raised
Then(a, b) ==
    IF a.exc # "none" THEN a
    ELSE [entries |-> a.entries \o b.entries, exc |-> b.exc]

\* for name, body in instances.items(): yield r_type, name, body
IterInstances(r_type, instances) ==
    IF ~IsDict(instances) THEN IterRaise("AttributeError")   \* .items()
    ELSE Yield([i \in 1..Len(instances.m) |->
                  Entry(r_type, instances.m[i].k, instances.m[i].v)])

\* a loop over the types that is left after the first type
IterTypes_first_only(items, i) ==
    IF i > Len(items) THEN Yield(<<>>)
    ELSE IterInstances(items[i].k, items[i].v)

\* resources is a dict
RECURSIVE IterTypes(_, _)
IterTypes(items, i) ==
    IF i > Len(items) THEN Yield(<<>>)
    ELSE Then(IterInstances(items[i].k, items[i].v), IterTypes(items, i + 1))

\* values is a list: for instance in values
RECURSIVE IterValueList(_, _, _)
IterValueList(r_type, values, i) ==
    IF i > Len(values) THEN Yield(<<>>)
    ELSE Then(IterInstances(r_type, values[i]),
              IterValueList(r_type, values, i + 1))

\* for r_type, values in block.items()
RECURSIVE IterBlockItems(_, _)
IterBlockItems(items, i) ==
    IF i > Len(items) THEN Yield(<<>>)
    ELSE Then(IF IsList(items[i].v)
              THEN IterValueList(items[i].k, items[i].v.l, 1)
              ELSE IF IsDict(items[i].v)
              THEN IterInstances(items[i].k, items[i].v)
              ELSE Yield(<<>>),
              IterBlockItems(items, i + 1))

\* resources is a list: for block in resources
RECURSIVE IterBlocks(_, _)
IterBlocks(blocks, i) ==
    IF i > Len(blocks) THEN Yield(<<>>)
    ELSE Then(IF ~IsDict(blocks[i]) THEN Yield(<<>>)
              ELSE IterBlockItems(blocks[i].m, 1),
              IterBlocks(blocks, i + 1))

iter_resources(cfg) ==
    LET resources == Get(cfg, S_resource, EmptyDict)
    IN IF IsDict(resources) THEN IterTypes(resources.m, 1)
       ELSE IF IsList(resources) THEN IterBlocks(resources.l, 1)
       ELSE Yield(<<>>)

(***************************************************************************)
(* build_output_structure                                                  *)
(***************************************************************************)
\* resource_section.setdefault(r_type, {})[name] = body, for every resource
RECURSIVE ResourceSection(_, _, _)
ResourceSection(section, resources, i) ==
    IF i > Len(resources) THEN section
    ELSE ResourceSection(
             DictSet(section, resources[i].type,
                     DictSet(Get(section, resources[i].type, EmptyDict),
                             resources[i].name, resources[i].body)),
             resources, i + 1)

build_output_structure(resources, template) ==
    LET output == Dict(SelectSeq(template.m, LAMBDA it : it.k # S_resource))
        resource_section == ResourceSection(EmptyDict, resources, 1)
    IN IF Truthy(resource_section)
       THEN DictSet(output, S_resource, resource_section)
       ELSE output

(***************************************************************************)
(* Source documents.                                                       *)
(***************************************************************************)
MaxResources == 2   \* resources per source document

D1(k1, v1) == Dict(<<Item(k1, v1)>>)
D2(k1, v1, k2, v2) == Dict(<<Item(k1, v1), Item(k2, v2)>>)
D3(k1, v1, k2, v2, k3, v3) == Dict(<<Item(k1, v1), Item(k2, v2), Item(k3, v3)>>)

AwsSamples ==
    { Entry(S_aws_instance, IN_x,
            D3(S_ami, Str(IN_ami), S_instance_type, Str(IN_flavor),
               S_key_name, Str(IN_key))),
      Entry(S_aws_instance, IN_y, EmptyDict),
      Entry(S_aws_vpc, IN_x, D1(S_cidr_block, Str(IN_cidr))),
      Entry(S_aws_subnet, IN_x, None),
      Entry(S_aws_security_group, IN_x,
            D2(S_name, Str(IN_x), S_ingress, List(<<>>))),
      Entry(S_aws_security_group, IN_y,
            D1(S_egress, List(<<D1(S_cidr_block, Str(IN_cidr))>>))),
      Entry(S_aws_security_group, IN_main, D1(S_name, Str(IN_main))),
      Entry(IN_aws_s3_bucket, IN_x, EmptyDict) }

AzureSamples ==
    { Entry(S_azurerm_virtual_machine, IN_x,
            D2(S_vm_size, Str(IN_flavor),
               S_storage_image_reference, D1(S_id, Str(IN_img)))),
      Entry(S_azurerm_linux_virtual_machine, IN_x,
            D3(S_size, Str(IN_flavor),
               S_source_image_reference, D1(S_publisher, Str(IN_img)),
               S_os_disk, D1(S_caching, Str(S_ReadWrite)))),
      Entry(S_azurerm_virtual_machine, IN_y, EmptyDict),
      Entry(S_azurerm_virtual_network, IN_main,
            D1(S_address_space, List(<<Str(IN_cidr)>>))),
      Entry(S_azurerm_subnet, IN_x,
            D2(S_address_prefix, Str(IN_cidr),
               S_virtual_network_name, Str(IN_vnet_ref))),
      Entry(S_azurerm_subnet, IN_y, EmptyDict),
      Entry(S_azurerm_network_security_group, IN_x,
            D1(S_security_rule, List(<<D1(S_name, Str(IN_x))>>))),
      Entry(IN_azurerm_storage_account, IN_x, EmptyDict) }

GcpSamples ==
    { Entry(S_google_compute_instance, IN_x,
            D3(S_machine_type, Str(IN_flavor),
               S_boot_disk, D1(S_initialize_params, D1(S_image, Str(IN_img))),
               S_network_interface,
                   List(<<D1(S_subnetwork, Str(IN_subnet_ref))>>))),
      Entry(S_google_compute_instance, IN_y,
            D2(S_machine_type, Str(IN_flavor), S_boot_disk, List(<<>>))),
      Entry(S_google_compute_instance, IN_main, EmptyDict),
      Entry(S_google_compute_network, IN_x,
            D1(S_auto_create_subnetworks, Bool(FALSE))),
      Entry(S_google_compute_network, IN_y,
            D2(S_auto_create_subnetworks, Bool(FALSE),
               S_routing_config, Str(IN_custom))),
      Entry(S_google_compute_subnetwork, IN_x,
            D3(S_ip_cidr_range, Str(IN_cidr), S_network, Str(IN_network_ref),
               S_region, Str(IN_eu))),
      Entry(S_google_compute_firewall, IN_x, EmptyDict),
      Entry(IN_google_storage_bucket, IN_x, EmptyDict) }

\* resources a source document for provider pair p is made of
Samples(p) ==
    CASE p = "aws_to_huaweicloud" -> AwsSamples
      [] p = "azure_to_aws"       -> AzureSamples
      [] p = "gcp_to_azure"       -> GcpSamples

SeqsUpTo(S, n) == UNION {[1..k -> S] : k \in 0..n}

\* a resource name is unique within its type
Distinct(es) ==
    \A i, j \in 1..Len(es) :
        (es[i].type = es[j].type /\ es[i].name = es[j].name) => i = j

\* resource = {type: {name: body}}
MapSection(es) == ResourceSection(EmptyDict, es, 1)

\* resource = [{type: {name: body}}, ...]
BlockSection(es) ==
    List([i \in 1..Len(es) |->
            D1(es[i].type, D1(es[i].name, es[i].body))])

\* resource = [{type: [{name: body}]}, ...], as hcl2 parses a .tf file
HclSection(es) ==
    List([i \in 1..Len(es) |->
            D1(es[i].type, List(<<D1(es[i].name, es[i].body)>>))])

WellFormedSections(p) ==
    UNION { {MapSection(es), BlockSection(es), HclSection(es)} :
              es \in {s \in SeqsUpTo(Samples(p), MaxResources) : Distinct(s)} }

\* resource sections of a shape iter_resources does not expect
MalformedSections(p) ==
    LET ok == CHOOSE e \in Samples(p) : e.name = IN_main
    IN { Str(IN_custom),
         D2(ok.type, D1(ok.name, ok.body), IN_other, Str(IN_custom)),
         List(<<Str(IN_custom), D1(ok.type, D1(ok.name, ok.body))>>),
         List(<<D1(ok.type, Str(IN_custom)), D1(ok.type, D1(ok.name, ok.body))>>),
         List(<<D1(ok.type, List(<<D1(ok.name, ok.body), Str(IN_custom)>>))>>) }

\* the key the provider block of pair p injects
TargetProvider(p) == ProviderBlock(p).m[1].k

\* the other top-level sections of a source document
Preambles(p) ==
    { <<>>,
      <<Item(S_provider, D1(TargetProvider(p), D1(S_region, Str(IN_custom))))>>,
      <<Item(IN_variable, D1(IN_x, EmptyDict)),
        Item(S_provider, D1(IN_other, D1(S_region, Str(IN_custom))))>>,
      <<Item(S_provider, List(<<D1(IN_other, EmptyDict)>>))>> }

Documents(p) ==
    { Dict(pre \o <<Item(S_resource, sec)>>) :
        pre \in Preambles(p),
        sec \in WellFormedSections(p) \cup MalformedSections(p) }
    \cup { Dict(pre) : pre \in Preambles(p) }

(***************************************************************************)
(* convert_configuration                                                   *)
(***************************************************************************)
NoException == [class |-> "none", origin |-> "none"]
Exception(class, origin) == [class |-> class, origin |-> origin]

\* ConversionReport()
EmptyReport == [successful_resources |-> <<>>, errors |-> <<>>]

NoRun == [pc |-> "none", report |-> EmptyReport]

\* f"Unsupported resource '{r_type}.{name}'. {unsupported_notice}".strip()
UnsupportedMessage(r_type, name, unsupported_notice) ==
    Strip(F_unsupported \o r_type \o F_dot \o name \o F_quote_dot_space
          \o unsupported_notice)

\* f"{r_type}.{name}: {exc}"
FailureMessage(r_type, name, msg) ==
    r_type \o F_dot \o name \o F_colon_space \o msg

\* f"{new_type}.{new_name}"
SuccessName(e) == e.type \o F_dot \o e.name

\* output_config.setdefault("provider", {})
ProviderSection(output) == Get(output, S_provider, EmptyDict)

Init ==
    /\ pc = "Start"
    /\ pair \in Pairs
    /\ config = None
    /\ loaded = None
    /\ pending = <<>>
    /\ iter_exc = "none"
    /\ converted_resources = <<>>
    /\ report = EmptyReport
    /\ output_config = None
    /\ written = None
    /\ exc = NoException
    /\ examined = 0
    /\ pass = 1
    /\ first = NoRun
    /\ cv_pc = "idle"
    /\ cv_type = <<>>
    /\ cv_name = <<>>
    /\ cv_body = None
    /\ cv_result = Raise("none")

\* lines 121-124, and the first step of the generator: the document is
\* read and parsed, the locals are created
Start(doc) ==
    /\ config' = doc
    /\ loaded' = doc
    /\ pending' = iter_resources(doc).entries
    /\ iter_exc' = iter_resources(doc).exc
    /\ converted_resources' = <<>>
    /\ report' = EmptyReport
    /\ output_config' = None
    /\ written' = None
    /\ exc' = NoException
    /\ examined' = 0
    /\ pc' = "Iterating"

Load ==
    /\ pc = "Start"
    /\ \E doc \in Documents(pair) : Start(doc)
    /\ UNCHANGED <<pair, pass, first, cv_vars>>

\* load_terraform_config raises: unreadable file, invalid JSON or HCL,
\* python-hcl2 not installed
LoadFails ==
    /\ pc = "Start"
    /\ pc' = "Raised"
    /\ exc' = Exception("LoadError", "load")
    /\ UNCHANGED <<pair, config, loaded, pending, iter_exc,
                   converted_resources, report, output_config, written,
                   examined, pass, first, cv_vars>>

\* one iteration of the loop of lines 126-140 on the entry (r_type, name, body)
Convert ==
    /\ pc = "Iterating"
    /\ pending # <<>>
    /\ LET r_type == Head(pending).type
           name == Head(pending).name
           body == Head(pending).body
           new_resources == Converter(r_type, name, body)
       IN /\ pending' = Tail(pending)
          /\ examined' = examined + 1
          /\ IF r_type \notin Registry(pair)
             THEN /\ report' = [report EXCEPT !.errors =
                        Append(@, UnsupportedMessage(r_type, name, Notice(pair)))]
                  /\ UNCHANGED <<converted_resources, pc, exc>>
             ELSE IF new_resources.st = RCE
             THEN /\ report' = [report EXCEPT !.errors =
                        Append(@, FailureMessage(r_type, name, new_resources.msg))]
                  /\ UNCHANGED <<converted_resources, pc, exc>>
             ELSE IF new_resources.st = "ok"
             THEN /\ converted_resources' =
                        converted_resources \o new_resources.out
                  /\ report' = [report EXCEPT !.successful_resources =
                        @ \o [i \in 1..Len(new_resources.out) |->
                                SuccessName(new_resources.out[i])]]
                  /\ UNCHANGED <<pc, exc>>
             ELSE /\ pc' = "Raised"
                  /\ exc' = Exception(new_resources.st, "converter")
                  /\ UNCHANGED <<converted_resources, report>>
    /\ UNCHANGED <<pair, config, loaded, iter_exc, output_config, written,
                   pass, first, cv_vars>>

\* the generator raises where the loop asks it for the next entry
IterationFails ==
    /\ pc = "Iterating"
    /\ pending = <<>>
    /\ iter_exc # "none"
    /\ pc' = "Raised"
    /\ exc' = Exception(iter_exc, "iter_resources")
    /\ UNCHANGED <<pair, config, loaded, pending, iter_exc,
                   converted_resources, report, output_config, written,
                   examined, pass, first, cv_vars>>

\* lines 142-147: the output document is built, the provider block is
\* injected, the document is written and the report returned.  The value
\* of a top-level section is the same object in `config` and in the output,
\* so update() on the output's provider section is seen through `config`.
Assemble ==
    /\ pc = "Iterating"
    /\ pending = <<>>
    /\ iter_exc = "none"
    /\ LET built == build_output_structure(converted_resources, config)
           section == ProviderSection(built)
           merged == DictUpdate(section, ProviderBlock(pair))
       IN IF ~Truthy(ProviderBlock(pair))
          THEN /\ output_config' = built
               /\ written' = built
               /\ pc' = "Done"
               /\ UNCHANGED <<config, exc>>
          ELSE IF ~IsDict(section)
          THEN /\ output_config' = built
               /\ pc' = "Raised"
               /\ exc' = Exception("AttributeError", "provider")   \* .update
               /\ UNCHANGED <<config, written>>
          ELSE /\ output_config' = DictSet(built, S_provider, merged)
               /\ written' = DictSet(built, S_provider, merged)
               /\ config' = IF HasKey(config, S_provider)
                            THEN DictSet(config, S_provider, merged)
                            ELSE config
               /\ pc' = "Done"
               /\ UNCHANGED exc
    /\ UNCHANGED <<pair, loaded, pending, iter_exc, converted_resources,
                   report, examined, pass, first, cv_vars>>

(***************************************************************************)
(* A second run, on the same document with its map-shaped resource         *)
(* section reordered.                                                      *)
(***************************************************************************)
\* the orderings of the sequence s
PermSeqs(s) ==
    { [i \in 1..Len(s) |-> s[f[i]]] : f \in Permutations(1..Len(s)) }

\* the orderings of the names inside one resource type
NameOrders(instances) ==
    IF IsDict(instances) THEN {Dict(m) : m \in PermSeqs(instances.m)}
    ELSE {instances}

RECURSIVE InnerOrders(_, _)
InnerOrders(items, i) ==
    IF i > Len(items) THEN {<<>>}
    ELSE { <<Item(items[i].k, v)>> \o rest :
             v \in NameOrders(items[i].v), rest \in InnerOrders(items, i + 1) }

\* the map-shaped sections that hold the entries of `section` in any order
Reorderings(section) ==
    { Dict(m) : m \in UNION { InnerOrders(o, 1) : o \in PermSeqs(section.m) } }

Reorder ==
    /\ pc \in {"Done", "Raised"}
    /\ pass = 1
    /\ exc.origin # "load"
    /\ IsDict(Get(loaded, S_resource, None))
    /\ \E sec \in Reorderings(Lookup(loaded, S_resource)) :
          /\ sec # Lookup(loaded, S_resource)
          /\ Start(DictSet(loaded, S_resource, sec))
    /\ pass' = 2
    /\ first' = [pc |-> pc, report |-> report]
    /\ UNCHANGED <<pair, cv_vars>>

Next ==
    \/ Load
    \/ LoadFails
    \/ Convert
    \/ IterationFails
    \/ Assemble
    \/ Reorder

Spec == Init /\ [][Next]_vars

(***************************************************************************)
(* One call of one registered converter on a body drawn from the shapes    *)
(* its code distinguishes.                                                 *)
(***************************************************************************)
Absent == [t |-> "absent", s |-> <<>>, b |-> FALSE, l |-> <<>>, m |-> <<>>]

\* the dicts that give each key one of its values, or leave it out
RECURSIVE ItemsFrom(_, _)
ItemsFrom(choices, i) ==
    IF i > Len(choices) THEN {<<>>}
    ELSE { (IF v = Absent THEN <<>> ELSE <<Item(choices[i][1], v)>>) \o rest :
             v \in choices[i][2], rest \in ItemsFrom(choices, i + 1) }

Bodies(choices) == { Dict(items) : items \in ItemsFrom(choices, 1) }

Opt(v) == {Absent, v}
SomeTags == D1(IN_x, Str(IN_y))

RefPrefixes == {<<>>, IN_ref_open}
RefSuffixes == {<<>>, IN_ref_close}
RefNames == {IN_x, IN_main, IN_name_main}

\* "<prefix>azurerm_virtual_network.<name>.name<suffix>"
VnetReference(prefix, name, suffix) ==
    prefix \o S_azurerm_virtual_network \o F_dot \o name \o F_dot_name \o suffix

VnetReferences ==
    { VnetReference(p, n, s) : p \in RefPrefixes, n \in RefNames, s \in RefSuffixes }

ImageReferences ==
    { Absent, EmptyDict, D1(S_id, Str(IN_img)), D1(S_urn, Str(IN_img)),
      List(<<D1(S_id, Str(IN_img))>>) }

AzureVmBodies ==
    Bodies(<< <<S_vm_size, Opt(Str(IN_flavor))>>,
              <<S_size, {Absent, Str(IN_flavor), Str(<<>>)}>>,
              <<S_storage_image_reference, ImageReferences>>,
              <<S_os_disk, {Absent, D1(S_caching, Str(S_ReadWrite)), Str(IN_x)}>> >>)

BodiesOf(r_type) ==
    CASE r_type = S_aws_instance ->
           Bodies(<< <<S_ami, Opt(Str(IN_ami))>>,
                     <<S_instance_type, Opt(Str(IN_flavor))>>,
                     <<S_tags, Opt(SomeTags)>>,
                     <<S_vpc_security_group_ids, Opt(List(<<Str(IN_x)>>))>> >>)
      [] r_type = S_aws_vpc ->
           Bodies(<< <<S_cidr_block, Opt(Str(IN_cidr))>>,
                     <<S_enable_dns_hostnames, Opt(Bool(TRUE))>> >>)
      [] r_type = S_aws_subnet ->
           Bodies(<< <<S_vpc_id, Opt(Str(IN_x))>>,
                     <<S_cidr_block, Opt(Str(IN_cidr))>>,
                     <<S_availability_zone, Opt(Str(IN_eu))>> >>)
      [] r_type = S_aws_security_group ->
           Bodies(<< <<S_name, Opt(Str(IN_x))>>,
                     <<S_ingress, {Absent, List(<<>>), List(<<EmptyDict>>)}>>,
                     <<S_egress, {Absent, List(<<>>), None}>>,
                     <<S_tags, Opt(SomeTags)>> >>)
      [] r_type = S_azurerm_virtual_machine -> AzureVmBodies
      [] r_type = S_azurerm_linux_virtual_machine -> AzureVmBodies
      [] r_type = S_azurerm_virtual_network ->
           Bodies(<< <<S_address_space,
                       {Absent, List(<<>>), List(<<Str(IN_cidr)>>), Str(IN_cidr),
                        D1(S_address_prefixes, List(<<Str(IN_cidr)>>))}>>,
                     <<S_tags, Opt(SomeTags)>> >>)
      [] r_type = S_azurerm_subnet ->
           Bodies(<< <<S_address_prefix, Opt(Str(IN_cidr))>>,
                     <<S_virtual_network_name,
                       {Absent, Str(IN_main), List(<<Str(IN_main)>>)}
                       \cup {Str(r) : r \in VnetReferences}>>,
                     <<S_tags, Opt(SomeTags)>> >>)
      [] r_type = S_azurerm_network_security_group ->
           Bodies(<< <<S_name, Opt(Str(IN_x))>>,
                     <<S_security_rule, {Absent, List(<<>>), List(<<EmptyDict>>)}>>,
                     <<S_tags, Opt(SomeTags)>> >>)
      [] r_type = S_google_compute_instance ->
           Bodies(<< <<S_machine_type, Opt(Str(IN_flavor))>>,
                     <<S_boot_disk,
                       {Absent, List(<<>>), Str(IN_x),
                        D1(S_initialize_params, D1(S_image, Str(IN_img))),
                        List(<<D1(S_initialize_params, D1(S_image, Str(IN_img)))>>),
                        D1(S_initialize_params, List(<<D1(S_image, Str(IN_img))>>))}>>,
                     <<S_network_interface,
                       {Absent, List(<<>>),
                        List(<<D1(S_subnetwork, Str(IN_subnet_ref))>>),
                        List(<<D1(S_subnetwork, List(<<Str(IN_x)>>))>>),
                        List(<<D1(S_access_config, List(<<EmptyDict>>))>>)}>>,
                     <<S_can_ip_forward, Opt(Bool(TRUE))>> >>)
      [] r_type = S_google_compute_network ->
           Bodies(<< <<S_auto_create_subnetworks, {Absent, Bool(FALSE), Bool(TRUE)}>>,
                     <<S_routing_config,
                       {Absent, Str(IN_x),
                        D1(S_ipv4_cidr_blocks, List(<<Str(IN_cidr)>>))}>>,
                     <<S_name, Opt(Str(IN_main))>> >>)
      [] r_type = S_google_compute_subnetwork ->
           Bodies(<< <<S_ip_cidr_range, Opt(Str(IN_cidr))>>,
                     <<S_network, {Absent, Str(IN_network_ref), List(<<>>)}>>,
                     <<S_region, {Absent, Str(IN_eu), List(<<Str(IN_eu)>>)}>> >>)
      [] r_type = S_google_compute_firewall -> {EmptyDict}

\* bodies that are not a map
OtherBodies == {None, Bool(TRUE), List(<<>>), Str(IN_x), List(<<Str(S_ingress)>>)}

AllConverters ==
    AWS_TO_HUAWEI_CONVERTERS \cup AZURE_TO_AWS_CONVERTERS
        \cup GCP_TO_AZURE_CONVERTERS

ConvInit ==
    /\ pc = "Start"
    /\ pair = "aws_to_huaweicloud"
    /\ config = None
    /\ loaded = None
    /\ pending = <<>>
    /\ iter_exc = "none"
    /\ converted_resources = <<>>
    /\ report = EmptyReport
    /\ output_config = None
    /\ written = None
    /\ exc = NoException
    /\ examined = 0
    /\ pass = 1
    /\ first = NoRun
    /\ cv_pc = "called"
    /\ cv_type \in AllConverters
    /\ cv_name = IN_x
    /\ cv_body \in BodiesOf(cv_type) \cup OtherBodies
    /\ cv_result = Raise("none")

\* new_resources = converter(name, body)
Call ==
    /\ cv_pc = "called"
    /\ cv_result' = Converter(cv_type, cv_name, cv_body)
    /\ cv_pc' = "returned"
    /\ UNCHANGED <<driver_vars, cv_type, cv_name, cv_body>>

SpecConv == ConvInit /\ [][Call]_vars

(***************************************************************************)
(* Properties.                                                             *)
(***************************************************************************)
Range(s) == {s[i] : i \in 1..Len(s)}

RECURSIVE CountFrom(_, _)
CountFrom(items, i) ==
    IF i > Len(items) THEN 0
    ELSE Len(items[i].v.m) + CountFrom(items, i + 1)

\* number of (type, name) entries in the `resource` section of a document
ResourceCount(doc) == CountFrom(Get(doc, S_resource, EmptyDict).m, 1)

\* C1: when convert_configuration has completed, the output document's
\* resource section holds as many (type, name) entries as the report has
\* successful resources.
C1_OutputCountEqualsSuccesses ==
    pc = "Done" =>
        ResourceCount(output_config) = Len(report.successful_resources)

\* C2: once the document has loaded, an exception raised by a converter on
\* one entry never leaves convert_configuration.
C2_ConverterFailureNeverEscalates ==
    ~(pc = "Raised" /\ exc.origin = "converter")

\* C3: iter_resources never raises, whatever the shape of the resource
\* section.
C3_IterResourcesNeverRaises == iter_exc = "none"

\* C4: every key the source document's provider section already has keeps
\* its value in the output document after the provider block is injected.
C4_ExistingProviderKeysKept ==
    (pc = "Done" /\ IsDict(Get(loaded, S_provider, None))) =>
        \A i \in 1..Len(Lookup(loaded, S_provider).m) :
            LET it == Lookup(loaded, S_provider).m[i]
            IN Get(ProviderSection(output_config), it.k, None) = it.v

\* C5: after a completed pass the in-memory input document has the content
\* it had right after loading.
C5_InputDocumentUnmodified == pc = "Done" => config = loaded

\* the required fields of each source resource type, each given as the set
\* of keys that are accepted for it
RequiredFields(r_type) ==
    CASE r_type = S_aws_instance -> {{S_ami}, {S_instance_type}}
      [] r_type = S_aws_vpc -> {{S_cidr_block}}
      [] r_type = S_aws_subnet -> {{S_vpc_id}, {S_cidr_block}}
      [] r_type \in {S_azurerm_virtual_machine, S_azurerm_linux_virtual_machine} ->
           {{S_vm_size, S_size},
            {S_storage_image_reference, S_source_image_reference}}
      [] r_type = S_azurerm_virtual_network -> {{S_address_space}}
      [] r_type = S_azurerm_subnet -> {{S_address_prefix}, {S_virtual_network_name}}
      [] r_type = S_google_compute_instance -> {{S_machine_type}, {S_boot_disk}}
      [] r_type = S_google_compute_subnetwork -> {{S_ip_cidr_range}}
      [] OTHER -> {}

\* C6: a converter called on a body that lacks required fields fails with a
\* conversion failure whose message names every one of the missing fields.
C6_EveryMissingFieldNamed ==
    (cv_pc = "returned" /\ IsDict(cv_body)) =>
        \A group \in RequiredFields(cv_type) :
            (\A field \in group : ~HasKey(cv_body, field)) =>
                /\ cv_result.st = RCE
                /\ \E field \in group : Contains(cv_result.msg, field)

\* the step of the loop that examines one more source resource
Examines == examined' = examined + 1

\* C7: each source resource examined is accounted for once, on one side of
\* the report: an unregistered type or a failing converter adds one error
\* and no success and no converted resource; a conversion adds one success
\* per target entry, at least one, and no error; so after a completed pass
\* successes plus errors are at least the resources examined.
C7_EachResourceAccountedOnce ==
    /\ [][Examines =>
            LET e == Head(pending)
                unsupported == e.type \notin Registry(pair)
                result == Converter(e.type, e.name, e.body)
            IN /\ (unsupported \/ result.st = RCE) =>
                    /\ Len(report'.errors) = Len(report.errors) + 1
                    /\ SubSeq(report'.errors, 1, Len(report.errors)) = report.errors
                    /\ report'.successful_resources = report.successful_resources
                    /\ converted_resources' = converted_resources
               /\ (~unsupported /\ result.st = "ok") =>
                    /\ report'.errors = report.errors
                    /\ Len(result.out) >= 1
                    /\ report'.successful_resources =
                           report.successful_resources
                               \o [i \in 1..Len(result.out) |->
                                     SuccessName(result.out[i])]
                    /\ converted_resources' = converted_resources \o result.out
        ]_vars
    /\ [](pc = "Done" =>
            /\ pending = <<>>
            /\ Len(report.successful_resources) + Len(report.errors) >= examined)

\* C7 witness: a completed pass over a compute instance, converted to two
\* target resources, and a firewall, which fails
C7_Witness ==
    /\ pc = "Done"
    /\ examined = 2
    /\ Len(report.successful_resources) = 2
    /\ Len(report.errors) = 1

\* the entry the loop is about to examine is an aws_security_group with rules
SecurityGroupWithRules ==
    /\ pair = "aws_to_huaweicloud"
    /\ pc = "Iterating"
    /\ pending # <<>>
    /\ Head(pending).type = S_aws_security_group
    /\ IsDict(Head(pending).body)
    /\ (HasKey(Head(pending).body, S_ingress) \/ HasKey(Head(pending).body, S_egress))

\* C8: an aws_security_group whose body has an ingress or an egress key
\* always fails with the manual-migration error: the step adds that error to
\* the report, no success and no converted resource.
C8_SecurityGroupRulesAlwaysFail ==
    [][(SecurityGroupWithRules /\ Examines) =>
           /\ report'.errors =
                  Append(report.errors,
                         FailureMessage(S_aws_security_group, Head(pending).name,
                                        MSG_secgroup_rules))
           /\ report'.successful_resources = report.successful_resources
           /\ converted_resources' = converted_resources
           /\ pc' = "Iterating"
      ]_vars

\* C8 witness: the manual-migration error of the security group whose
\* ingress list is empty is in the report of a completed pass
C8_Witness ==
    /\ pc = "Done"
    /\ pair = "aws_to_huaweicloud"
    /\ FailureMessage(S_aws_security_group, IN_x, MSG_secgroup_rules)
           \in Range(report.errors)
    /\ ~HasKey(Get(output_config, S_resource, EmptyDict),
               S_huaweicloud_networking_secgroup)

\* C9: the report of the run on the reordered document has the same set of
\* successes and the same set of errors as the report of the first run.
C9_ReorderingKeepsReportSets ==
    (pass = 2 /\ pc = "Done" /\ first.pc = "Done") =>
        /\ Range(report.successful_resources)
               = Range(first.report.successful_resources)
        /\ Range(report.errors) = Range(first.report.errors)

\* C9 witness: both runs completed and the second report lists the
\* successes in another order than the first
C9_Witness ==
    /\ pass = 2
    /\ pc = "Done"
    /\ first.pc = "Done"
    /\ Len(report.successful_resources) >= 2
    /\ report.successful_resources # first.report.successful_resources

\* C10: for virtual_network_name = <prefix>azurerm_virtual_network.<name>.name<suffix>
\* the subnet's vpc_id is <prefix>aws_vpc.<name>.id<suffix>.
C10_ReferencedNameUnchanged ==
    \A p \in RefPrefixes, n \in RefNames, s \in RefSuffixes :
        ( /\ cv_pc = "returned"
          /\ cv_type = S_azurerm_subnet
          /\ IsDict(cv_body)
          /\ HasKey(cv_body, S_address_prefix)
          /\ Get(cv_body, S_virtual_network_name, None)
                 = Str(VnetReference(p, n, s)) ) =>
            /\ cv_result.st = "ok"
            /\ Lookup(cv_result.out[1].body, S_vpc_id)
                   = Str(p \o S_aws_vpc \o F_dot \o n \o F_dot_id \o s)
====
